---- MODULE Spec2Model ----
(***************************************************************************)
(* Organoid (drylab.py): a population of Izhikevich-type neurons with      *)
(* conductance synapses, midpoint integration, a one-tick spike/reset      *)
(* protocol and an optional triplet STDP rule.                             *)
(*                                                                         *)
(* Numbers.  The program computes in np.float32.  Here a number x is the   *)
(* integer round(x * Scale): additions are exact, every product and        *)
(* quotient is rounded to the nearest multiple of 1/Scale, as a float      *)
(* operation rounds to the nearest representable value.  np.exp is its     *)
(* second-order Taylor polynomial on that grid.  Non-finite values (inf,   *)
(* nan) are outside the model.                                             *)
(***************************************************************************)
EXTENDS Integers, Sequences, FiniteSets, TLC

VARIABLES G, a, b, c, d, C, k, Vr, Vt, Vp, Vn, tau, do_stdp,
          VUA, fired, traces,
          G0, last, steps, driven, fired0, pre, k1, half, k2, post, dt, Iin

coef == <<a, b, c, d, C, k, Vr, Vt, Vp, Vn, tau, do_stdp, G0>>
vars == <<G, a, b, c, d, C, k, Vr, Vt, Vp, Vn, tau, do_stdp,
          VUA, fired, traces,
          G0, last, steps, driven, fired0, pre, k1, half, k2, post, dt, Iin>>

(* ------------------------------ bounds -------------------------------- *)
\* Number of neurons of the populations explored.
NCells == 2
\* Number of step() calls explored on one object.
MaxSteps == 3
\* Resolution of the number grid: one unit is 1/Scale.
Scale == 64

(* ---------------------------- arithmetic ------------------------------ *)
\* n/m on the grid (m > 0).
Fx(n, m) == (2 * n * Scale + m) \div (2 * m)
\* x * y, rounded.
Mul(x, y) == (2 * x * y + Scale) \div (2 * Scale)
\* x / y, rounded (y # 0).
Div(x, y) ==
  IF y > 0 THEN (2 * x * Scale + y) \div (2 * y)
           ELSE (2 * (0 - x) * Scale + (0 - y)) \div (2 * (0 - y))
\* np.exp(x).
Exp(x) == Fx(1, 1) + x + Div(Mul(x, x), Fx(2, 1))

\* G @ x: sum over j of row[j] * x[j].
RECURSIVE Dot(_, _, _)
Dot(row, x, n) == IF n = 0 THEN 0 ELSE Dot(row, x, n - 1) + Mul(row[n], x[n])
MatVec(g, x) == [i \in 1..Len(g) |-> Dot(g[i], x, Len(x))]

(* ----------------------------- the object ----------------------------- *)
\* self.N = G.shape[0]
N == Len(G)

\* The packed state's four views.
V == VUA[1]
U == VUA[2]
A == VUA[3]
Adot == VUA[4]

\* STDP configuration (constructor keywords).
tau_stdp == <<Fx(2, 1), Fx(4, 1), Fx(8, 1)>>
Aplus == Fx(1, 2)
Aminus == Fx(1, 2)

Zeros(n) == [i \in 1..n |-> 0]
NoneFired(f) == \A i \in DOMAIN f : ~f[i]

\* numpy broadcasting of a length-m vector against a length-n vector.
CanBroadcast(m, n) == m = n \/ m = 1 \/ n = 1
BcAt(x, i) == IF Len(x) = 1 THEN x[1] ELSE x[i]

\* Every coefficient vector has length N and G is N x N.
WellFormed ==
  /\ \A x \in {a, b, c, d, C, k, Vr, Vt, Vp, Vn, tau} : Len(x) = N
  /\ \A i \in 1..N : Len(G[i]) = N

Live == {"init", "reset", "step"}

(* ------------------------------ reset() ------------------------------- *)
\* self.VUA[0,:] = self.Vr
ResetV(vua) == [vua EXCEPT ![1] = [i \in 1..N |-> BcAt(Vr, i)]]
\* Variant: the slice stops one row short (VUA[1:3,:] = 0), Adot survives.
ResetRestShort(vua) ==
  [r \in 1..4 |-> IF r = 1 \/ r = 4 THEN vua[r] ELSE Zeros(N)]
\* self.VUA[1:,:] = 0
ResetRest(vua) == [r \in 1..4 |-> IF r = 1 THEN vua[1] ELSE Zeros(N)]
\* self.V >= self.Vp
Detect(vua) == [i \in 1..N |-> vua[1][i] >= BcAt(Vp, i)]

(* ----------------------------- VUAdot() ------------------------------- *)
\* Variant: Udot written without the resting voltage, a*(b*V - U).
VUAdotNoRest(vua, g, I) ==
  LET v == vua[1]
      u == vua[2]
      act == vua[3]
      actdot == vua[4]
      AVn == [j \in 1..N |-> Mul(act[j], Vn[j])]
      GAVn == MatVec(g, AVn)
      GA == MatVec(g, act)
      NAcurrent == [i \in 1..N |-> Mul(Mul(k[i], v[i] - Vr[i]), v[i] - Vt[i])]
      syncurrent == [i \in 1..N |-> GAVn[i] - Mul(GA[i], v[i])]
      Vdot == [i \in 1..N |-> Div(NAcurrent[i] - u[i] + syncurrent[i] + I[i], C[i])]
      Udot == [i \in 1..N |-> Mul(a[i], Mul(b[i], v[i]) - u[i])]
      Adot_ == [i \in 1..N |-> Div(actdot[i], tau[i])]
      Addot == [i \in 1..N |-> Div(0 - (act[i] + Mul(Fx(2, 1), actdot[i])), tau[i])]
  IN  <<Vdot, Udot, Adot_, Addot>>

\* Variant: the A row is the carried Adot itself, not Adot / tau.
VUAdotUnscaled(vua, g, I) ==
  LET v == vua[1]
      u == vua[2]
      act == vua[3]
      actdot == vua[4]
      AVn == [j \in 1..N |-> Mul(act[j], Vn[j])]
      GAVn == MatVec(g, AVn)
      GA == MatVec(g, act)
      NAcurrent == [i \in 1..N |-> Mul(Mul(k[i], v[i] - Vr[i]), v[i] - Vt[i])]
      syncurrent == [i \in 1..N |-> GAVn[i] - Mul(GA[i], v[i])]
      Vdot == [i \in 1..N |-> Div(NAcurrent[i] - u[i] + syncurrent[i] + I[i], C[i])]
      Udot == [i \in 1..N |-> Mul(a[i], Mul(b[i], v[i] - Vr[i]) - u[i])]
      Addot == [i \in 1..N |-> Div(0 - (act[i] + Mul(Fx(2, 1), actdot[i])), tau[i])]
  IN  <<Vdot, Udot, actdot, Addot>>

VUAdot(vua, g, I) ==
  LET v == vua[1]
      u == vua[2]
      act == vua[3]
      actdot == vua[4]
      AVn == [j \in 1..N |-> Mul(act[j], Vn[j])]
      GAVn == MatVec(g, AVn)
      GA == MatVec(g, act)
      NAcurrent == [i \in 1..N |-> Mul(Mul(k[i], v[i] - Vr[i]), v[i] - Vt[i])]
      syncurrent == [i \in 1..N |-> GAVn[i] - Mul(GA[i], v[i])]
      Vdot == [i \in 1..N |-> Div(NAcurrent[i] - u[i] + syncurrent[i] + I[i], C[i])]
      Udot == [i \in 1..N |-> Mul(a[i], Mul(b[i], v[i] - Vr[i]) - u[i])]
      Adot_ == [i \in 1..N |-> Div(actdot[i], tau[i])]
      Addot == [i \in 1..N |-> Div(0 - (act[i] + Mul(Fx(2, 1), actdot[i])), tau[i])]
  IN  <<Vdot, Udot, Adot_, Addot>>

(* ------------------------------- step() ------------------------------- *)
\* Correction of the cells that crossed the peak in the last update.
Correct(vua, f) ==
  <<[i \in 1..N |-> IF f[i] THEN c[i] ELSE vua[1][i]],
    [i \in 1..N |-> IF f[i] THEN vua[2][i] + d[i] ELSE vua[2][i]],
    vua[3],
    [i \in 1..N |-> IF f[i] THEN vua[4][i] + Fx(1, 1) ELSE vua[4][i]]>>

\* Variant: the STDP block runs whatever do_stdp says.
StdpAlways == TRUE
\* if self.do_stdp:
StdpEnabled == do_stdp

\* Variant: pair rule, potentiation not gated by the slow postsynaptic trace.
StdpGPair(g, tr, f) ==
  IF NoneFired(f) THEN g
  ELSE LET g1 == [i \in 1..N |-> [j \in 1..N |->
                    IF f[j] THEN g[i][j] - Mul(Aminus, tr[2][j]) ELSE g[i][j]]]
       IN  [i \in 1..N |-> [j \in 1..N |->
              IF f[i] THEN g1[i][j] + Mul(Aplus, tr[1][j]) ELSE g1[i][j]]]

\* Weight update for presynaptic, then postsynaptic spikes.
StdpG(g, tr, f) ==
  IF NoneFired(f) THEN g
  ELSE LET g1 == [i \in 1..N |-> [j \in 1..N |->
                    IF f[j] THEN g[i][j] - Mul(Aminus, tr[2][j]) ELSE g[i][j]]]
       IN  [i \in 1..N |-> [j \in 1..N |->
              IF f[i] THEN g1[i][j] + Mul(Aplus, Mul(tr[1][j], tr[3][i]))
                      ELSE g1[i][j]]]

\* self.traces *= np.exp(dt / self.tau_stdp); fired cells increment.
StdpTraces(tr, f, h) ==
  [r \in 1..3 |-> [i \in 1..N |->
     Mul(tr[r][i], Exp(Div(h, tau_stdp[r]))) + (IF f[i] THEN Fx(1, 1) ELSE 0)]]

\* k * dt/2 for a 4-row derivative.
HalfStep(kk, h) == [r \in 1..4 |-> [i \in 1..N |-> Div(Mul(kk[r][i], h), Fx(2, 1))]]

\* The midpoint method, first half: self.VUA += k1 * dt/2
HalfState(vua, kk1, h) ==
  LET h1 == HalfStep(kk1, h)
  IN  [r \in 1..4 |-> [i \in 1..N |-> vua[r][i] + h1[r][i]]]

\* The midpoint method, second half: self.VUA += k2*dt - k1*dt/2
FullState(vua, kk1, kk2, h) ==
  LET h1 == HalfStep(kk1, h)
  IN  [r \in 1..4 |-> [i \in 1..N |-> vua[r][i] + (Mul(kk2[r][i], h) - h1[r][i])]]

\* Variant: the downstroke is applied as soon as the spike is detected.
ClampEager(vua, f) ==
  [vua EXCEPT ![1] = [i \in 1..N |-> IF f[i] THEN c[i] ELSE vua[1][i]],
              ![2] = [i \in 1..N |-> IF f[i] THEN vua[2][i] + d[i] ELSE vua[2][i]]]

\* Variant: no correction down to the peak.
ClampNone(vua, f) == vua

\* self.V[self.fired] = self.Vp[self.fired]
Clamp(vua, f) == [vua EXCEPT ![1] = [i \in 1..N |-> IF f[i] THEN Vp[i] ELSE vua[1][i]]]

(* --------------------------- the caller's inputs ---------------------- *)
DtSet == {Fx(1, 2), Fx(1, 1)}
IinSet == {Zeros(N)} \cup
          {[i \in 1..N |-> IF i = j THEN Fx(8, 1) ELSE 0] : j \in 1..N}

\* Which constructor argument has the wrong size ("none": all agree).
BadArgs == {"none", "G", "a", "b", "c", "d", "C", "k", "Vr", "Vt", "Vp", "Vn", "tau"}
Arg(name, bad, x) ==
  [i \in 1..(IF bad = name THEN NCells + 1 ELSE NCells) |-> x]

(* ------------------------------- Init --------------------------------- *)
\* The arguments of a constructor call that has not run yet.
Init ==
  \E bad \in BadArgs, stdp \in BOOLEAN, g \in {0, 1}, hot \in BOOLEAN :
    /\ bad # "none" => (~stdp /\ g = 0 /\ ~hot)
    /\ G = [i \in 1..NCells |->
             [j \in 1..(IF bad = "G" THEN NCells + 1 ELSE NCells) |->
                IF i # j THEN Fx(g, 1) ELSE 0]]
    /\ G0 = G
    /\ a = Arg("a", bad, Fx(1, 1))
    /\ b = Arg("b", bad, Fx(1, 1))
    /\ c = Arg("c", bad, Fx(-1, 1))
    /\ d = Arg("d", bad, Fx(1, 1))
    /\ C = Arg("C", bad, Fx(2, 1))
    /\ k = Arg("k", bad, Fx(1, 1))
    /\ Vr = IF hot THEN [Arg("Vr", bad, Fx(-2, 1)) EXCEPT ![1] = Fx(2, 1)]
                   ELSE Arg("Vr", bad, Fx(-2, 1))
    /\ Vt = Arg("Vt", bad, 0)
    /\ Vp = Arg("Vp", bad, Fx(2, 1))
    /\ Vn = Arg("Vn", bad, Fx(1, 1))
    /\ tau = Arg("tau", bad, Fx(2, 1))
    /\ do_stdp = stdp
    /\ VUA = <<>>
    /\ fired = <<>>
    /\ traces = <<>>
    /\ last = "none"
    /\ steps = 0
    /\ driven = FALSE
    /\ fired0 = <<>>
    /\ pre = <<>>
    /\ k1 = <<>>
    /\ half = <<>>
    /\ k2 = <<>>
    /\ post = <<>>
    /\ dt = 0
    /\ Iin = <<>>

(* ------------------------------ actions ------------------------------- *)
\* __init__: allocate the state and the traces, then reset().  The two
\* numpy operations of reset() raise when Vr or Vp cannot be broadcast.
Construct ==
  /\ last = "none"
  /\ IF CanBroadcast(Len(Vr), N) /\ Len(Vr) <= N /\ CanBroadcast(N, Len(Vp))
     THEN LET z == [r \in 1..4 |-> Zeros(N)] IN
          /\ VUA' = ResetRest(ResetV(z))
          /\ fired' = Detect(ResetV(z))
          /\ traces' = [r \in 1..3 |-> Zeros(N)]
          /\ last' = "init"
     ELSE /\ last' = "raise"
          /\ UNCHANGED <<VUA, fired, traces>>
  /\ UNCHANGED <<G, coef, steps, driven, fired0, pre, k1, half, k2, post, dt, Iin>>

Reset ==
  /\ last \in Live
  /\ WellFormed
  /\ VUA' = ResetRest(ResetV(VUA))
  /\ fired' = Detect(ResetV(VUA))
  /\ fired0' = fired
  /\ driven' = FALSE
  /\ last' = "reset"
  /\ pre' = <<>>
  /\ k1' = <<>>
  /\ half' = <<>>
  /\ k2' = <<>>
  /\ post' = <<>>
  /\ dt' = 0
  /\ Iin' = <<>>
  /\ UNCHANGED <<G, coef, traces, steps>>

Step(h, I) ==
  /\ last \in Live
  /\ WellFormed
  /\ steps < MaxSteps
  /\ fired0' = fired
  /\ pre' = Correct(VUA, fired)
  /\ G' = (IF StdpEnabled THEN StdpG(G, traces, fired) ELSE G)
  /\ traces' = (IF StdpEnabled THEN StdpTraces(traces, fired, h) ELSE traces)
  /\ k1' = VUAdot(pre', G', I)
  /\ half' = HalfState(pre', k1', h)
  /\ k2' = VUAdot(half', G', I)
  /\ post' = FullState(half', k1', k2', h)
  /\ fired' = Detect(post')
  /\ VUA' = Clamp(post', fired')
  /\ dt' = h
  /\ Iin' = I
  /\ driven' = (driven \/ I # Zeros(N))
  /\ steps' = steps + 1
  /\ last' = "step"
  /\ UNCHANGED coef

\* step() on an object whose arrays disagree in size: numpy raises.
StepRaises ==
  /\ last \in Live
  /\ ~WellFormed
  /\ last' = "raise"
  /\ UNCHANGED <<G, coef, VUA, fired, traces, steps, driven, fired0, pre, k1,
                 half, k2, post, dt, Iin>>

Next ==
  \/ Construct
  \/ Reset
  \/ \E h \in DtSet, I \in IinSet : Step(h, I)
  \/ StepRaises

Spec == Init /\ [][Next]_vars

(* ============================ properties ============================== *)
\* The transition is a completed step() call.
IsStep == last' = "step" /\ steps' = steps + 1
AllVrBelowVp == \A i \in 1..N : Vr[i] < Vp[i]
GZero == \A i \in 1..N : \A j \in 1..N : G[i][j] = 0
OnlyFired(f, i) == f[i] /\ \A j \in 1..N : j # i => ~f[j]
TracesZero == \A r \in 1..3 : \A i \in 1..N : traces[r][i] = 0

\* What one step() call does to a detected cell and to a pending one.
C1_LatencyStep ==
  IsStep =>
    \A i \in 1..N :
      /\ fired'[i] => (V'[i] = Vp[i] /\ U'[i] = post'[2][i])
      /\ fired[i] => (pre'[1][i] = c[i] /\ pre'[2][i] = U[i] + d[i])
      /\ ~fired[i] => (pre'[1][i] = V[i] /\ pre'[2][i] = U[i])
\* C1: one-tick latency.  A cell detected by a step ends that step with
\* V = Vp and with U as the integrator left it (no bump yet); the reset
\* V := c, U := U + d happens in the correction that opens the next step,
\* for exactly the cells of FiredSet.
C1_OneTickLatency == [][C1_LatencyStep]_vars
\* A step has applied the downstroke to a cell an earlier step detected.
C1_Witness ==
  /\ last = "step"
  /\ AllVrBelowVp
  /\ \E i \in 1..N : fired0[i] /\ pre[1][i] = c[i] /\ pre[2][i] # VUA[2][i]
  /\ \E j \in 1..N : fired[j] /\ post[1][j] > Vp[j]

\* The state reset() leaves.
C2_RestState ==
  last \in {"init", "reset"} =>
    /\ V = Vr
    /\ U = Zeros(N)
    /\ A = Zeros(N)
    /\ Adot = Zeros(N)
    /\ (AllVrBelowVp => NoneFired(fired))
\* The step that follows a reset corrects no cell.
C2_NoStaleCorrection ==
  (IsStep /\ last \in {"init", "reset"} /\ AllVrBelowVp) => pre' = VUA
\* C2: after reset(), at construction or later, V = Vr and U = A = Adot = 0,
\* and no cell is in FiredSet when every Vr is below its Vp, so the next
\* step applies no correction.
C2_AfterReset == []C2_RestState /\ [][C2_NoStaleCorrection]_vars
\* reset() was called while a spike was pending.
C2_Witness ==
  /\ last = "reset"
  /\ AllVrBelowVp
  /\ steps > 0
  /\ \E i \in 1..N : fired0[i]

\* C3: a constructor call whose G is not square, or with a coefficient
\* vector of a length other than N, yields no object.
C3_MismatchRejected == ~WellFormed => last \notin Live

\* C4: with STDP enabled, after reset() every STDP trace is 0.
C4_ResetZeroesTraces == (last = "reset" /\ do_stdp) => TracesZero

\* C5: with STDP disabled, G keeps its construction value and the traces
\* stay zero, whatever fires.
C5_FrozenWithoutStdp ==
  (last \in Live /\ ~do_stdp) => (G = G0 /\ TracesZero)
\* Cells have fired and been reset on an object with STDP disabled and
\* nonzero weights.
C5_Witness ==
  /\ last = "step"
  /\ ~do_stdp
  /\ ~GZero
  /\ \E i \in 1..N : fired0[i]
  /\ \E j \in 1..N : fired[j]

\* A step in which B's first spike is processed after A has fired.
C6_PairingStep ==
  (IsStep /\ do_stdp) =>
    \A ca \in 1..N : \A cb \in 1..N :
      (ca # cb /\ OnlyFired(fired, cb) /\ traces[1][ca] > 0 /\ traces[3][cb] = 0)
        => G'[cb][ca] > G[cb][ca]
\* C6 as stated: A fired earlier (its fast trace is positive), B has not
\* fired before and is now the only cell in FiredSet; then B's STDP update
\* leaves G[B,A] strictly greater than before.
C6_CausalPairingIncreases == [][C6_PairingStep]_vars
\* A step in which B is the only cell whose spike is processed.
C6_AmendedStep ==
  (IsStep /\ do_stdp) =>
    \A ca \in 1..N : \A cb \in 1..N :
      (ca # cb /\ OnlyFired(fired, cb)) =>
        /\ G'[cb][ca] = G[cb][ca] + Mul(Aplus, Mul(traces[1][ca], traces[3][cb]))
        /\ G'[cb][ca] >= G[cb][ca]
        /\ (traces[3][cb] = 0 => G'[cb][ca] = G[cb][ca])
\* C6 amended: when B alone is in FiredSet, G[B,A] grows by exactly
\* Aplus * trace_plus[A] * trace_y[B] (traces read before this step's
\* decay); it never decreases, and it is unchanged when B has not fired
\* before (trace_y[B] = 0).
C6_PairingGatedBySlowTrace == [][C6_AmendedStep]_vars
\* B's first spike has been processed after A's: G[B,A] still has its
\* construction value.
C6_Witness ==
  /\ last = "step"
  /\ do_stdp
  /\ \E ca \in 1..N : \E cb \in 1..N :
       /\ ca # cb
       /\ OnlyFired(fired0, cb)
       /\ traces[3][cb] = Fx(1, 1)
       /\ traces[1][ca] > 0
       /\ G[cb][ca] = G0[cb][ca]

\* C7: from reset(), with G all-zero, every Vr below its Vp and only zero
\* input since, no cell fires and the state stays at the rest point.
C7_QuiescentRest ==
  (last \in Live /\ WellFormed /\ ~driven /\ AllVrBelowVp /\ GZero) =>
    /\ NoneFired(fired)
    /\ V = Vr
    /\ U = Zeros(N)
    /\ A = Zeros(N)
    /\ Adot = Zeros(N)
\* A zero-input step has run on such an object.
C7_Witness ==
  /\ last = "step"
  /\ ~driven
  /\ AllVrBelowVp
  /\ GZero
  /\ Iin = Zeros(N)

\* A step with an empty FiredSet.
C8_DecayStep ==
  (IsStep /\ do_stdp /\ NoneFired(fired)) =>
    \A r \in 1..3 : \A i \in 1..N :
      /\ traces'[r][i] = Mul(traces[r][i], Exp(Div(0 - dt', tau_stdp[r])))
      /\ traces'[r][i] <= traces[r][i]
\* C8: with STDP enabled, a step with an empty FiredSet multiplies each
\* trace by exp(-dt / tau_component), so no trace grows.
C8_TracesDecay == [][C8_DecayStep]_vars

\* The rows of the specification's derivative for cell i at state st.
SynCurrentAt(st, i) ==
  Dot(G[i], [j \in 1..N |-> Mul(st[3][j], Vn[j])], N)
    - Mul(Dot(G[i], st[3], N), st[1][i])
VdotAt(st, i) ==
  Div(Mul(Mul(k[i], st[1][i] - Vr[i]), st[1][i] - Vt[i]) - st[2][i]
        + SynCurrentAt(st, i) + Iin[i], C[i])
UdotAt(st, i) == Mul(a[i], Mul(b[i], st[1][i] - Vr[i]) - st[2][i])
AddotAt(st, i) == Div(0 - (st[3][i] + Mul(Fx(2, 1), st[4][i])), tau[i])

\* C9 as stated: at both evaluations of a step the derivative's rows are
\* Vdot, Udot, the carried Adot itself, and Addot.
C9_DerivativeRows ==
  last = "step" =>
    \A i \in 1..N :
      /\ k1[1][i] = VdotAt(pre, i) /\ k2[1][i] = VdotAt(half, i)
      /\ k1[2][i] = UdotAt(pre, i) /\ k2[2][i] = UdotAt(half, i)
      /\ k1[3][i] = pre[4][i] /\ k2[3][i] = half[4][i]
      /\ k1[4][i] = AddotAt(pre, i) /\ k2[4][i] = AddotAt(half, i)
\* C9 amended: the same, with the rate of change of A equal to
\* Adot[i] / tau[i].
C9_DerivativeRowsScaled ==
  last = "step" =>
    \A i \in 1..N :
      /\ k1[1][i] = VdotAt(pre, i) /\ k2[1][i] = VdotAt(half, i)
      /\ k1[2][i] = UdotAt(pre, i) /\ k2[2][i] = UdotAt(half, i)
      /\ k1[3][i] = Div(pre[4][i], tau[i]) /\ k2[3][i] = Div(half[4][i], tau[i])
      /\ k1[4][i] = AddotAt(pre, i) /\ k2[4][i] = AddotAt(half, i)
\* The derivative was evaluated with a nonzero Adot, input and coupling.
C9_Witness ==
  /\ last = "step"
  /\ ~GZero
  /\ \E i \in 1..N : pre[4][i] # 0 /\ k1[3][i] # pre[4][i] /\ pre[3][i] # 0
  /\ \E j \in 1..N : Iin[j] # 0

\* C10: at the end of a step no V exceeds its Vp, and a cell is in
\* FiredSet exactly when its V equals Vp.
C10_PeakInvariant ==
  last = "step" =>
    \A i \in 1..N : V[i] <= Vp[i] /\ (fired[i] <=> V[i] = Vp[i])
\* A step overshot the peak in one cell and not in another.
C10_Witness ==
  /\ last = "step"
  /\ \E i \in 1..N : post[1][i] > Vp[i] /\ fired[i]
  /\ \E j \in 1..N : post[1][j] < Vp[j] /\ ~fired[j]

====
